---- MODULE Spec2Model ----
(***************************************************************************)
(* A model of src/app.js: the /swap and /quote request handlers of the     *)
(* Uniswap V3 swap service, with the helpers they call (toAddress,         *)
(* getTokenDecimals, parseAmountIn, getBestQuote, calculateSlippage).      *)
(*                                                                         *)
(* Every `await` on an external call is a suspension point: a request's    *)
(* program counter `pc` names the external call that is in flight, and     *)
(* one action models the return of that call (with success or failure)     *)
(* together with all the synchronous code that runs up to the next         *)
(* external call or up to the response.                                    *)
(*                                                                         *)
(* Numbers: an ethers BigNumber is modelled by its decimal digits (most    *)
(* significant first, no leading zero, zero is <<0>>), because the amounts *)
(* of the program (10^18 base units for one WETH, 2^256-1 for the          *)
(* unlimited allowance) do not fit a machine integer.                      *)
(* A JavaScript string that the code parses (amountIn) is a sequence of    *)
(* one-character strings.                                                  *)
(***************************************************************************)
EXTENDS Integers, Sequences, FiniteSets, TLC

(***************************************************************************)
(* Bounds of the model.                                                    *)
(***************************************************************************)
\* amountIn strings "1" .. "MaxAmount", and on-chain balances of 0 .. MaxAmount
\* whole tokens.
MaxAmount == 2
\* decimals() of the one ERC-20 token of the model that is not WETH.
TokenDecimals == 8

(***************************************************************************)
(* BigNumber arithmetic on digit sequences.                                *)
(***************************************************************************)
RECURSIVE StripZeros(_)
StripZeros(s) ==
  IF Len(s) > 1 /\ Head(s) = 0 THEN StripZeros(Tail(s)) ELSE s

RECURSIVE Zeros(_)
Zeros(n) == IF n = 0 THEN <<>> ELSE <<0>> \o Zeros(n - 1)

\* k-th digit from the right (k = 0 is the units digit), 0 beyond the length.
DigitAt(a, k) == IF k < Len(a) THEN a[Len(a) - k] ELSE 0

MaxLen2(a, b) == IF Len(a) > Len(b) THEN Len(a) ELSE Len(b)

\* BigNumber.lt
BNLt(a, b) ==
  \/ Len(a) < Len(b)
  \/ /\ Len(a) = Len(b)
     /\ \E i \in 1..Len(a) :
          /\ a[i] < b[i]
          /\ \A j \in 1..(i - 1) : a[j] = b[j]

BNGte(a, b) == ~BNLt(a, b)

RECURSIVE AddFrom(_, _, _, _)
AddFrom(a, b, k, carry) ==
  IF k >= MaxLen2(a, b)
  THEN (IF carry = 0 THEN <<>> ELSE <<carry>>)
  ELSE LET s == DigitAt(a, k) + DigitAt(b, k) + carry
       IN  AddFrom(a, b, k + 1, s \div 10) \o <<s % 10>>

\* BigNumber.add
BNAdd(a, b) == StripZeros(AddFrom(a, b, 0, 0))

RECURSIVE SubFrom(_, _, _, _)
SubFrom(a, b, k, borrow) ==
  IF k >= Len(a)
  THEN <<>>
  ELSE LET d == DigitAt(a, k) - DigitAt(b, k) - borrow
       IN  SubFrom(a, b, k + 1, IF d < 0 THEN 1 ELSE 0)
             \o <<IF d < 0 THEN d + 10 ELSE d>>

\* BigNumber.sub, for a >= b
BNSub(a, b) == StripZeros(SubFrom(a, b, 0, 0))

RECURSIVE MulFrom(_, _, _, _)
MulFrom(a, m, k, carry) ==
  IF k >= Len(a)
  THEN (IF carry = 0 THEN <<>>
        ELSE MulFrom(<<>>, m, 0, carry \div 10) \o <<carry % 10>>)
  ELSE LET p == DigitAt(a, k) * m + carry
       IN  MulFrom(a, m, k + 1, p \div 10) \o <<p % 10>>

\* BigNumber.mul by a small non-negative integer
BNMulInt(a, m) == StripZeros(MulFrom(a, m, 0, 0))

RECURSIVE DivFrom(_, _, _, _)
DivFrom(a, d, i, rem) ==
  IF i > Len(a)
  THEN <<>>
  ELSE LET cur == rem * 10 + a[i]
       IN  <<cur \div d>> \o DivFrom(a, d, i + 1, cur % d)

\* BigNumber.div by a small positive integer: truncating division
BNDivInt(a, d) == StripZeros(DivFrom(a, d, 1, 0))

\* ethers.constants.MaxUint256 = 2^256 - 1
MaxUint256 ==
  << 1,1,5,7,9,2,0,8,9,2,3,7,3,1,6,1,9,5,4,2,3,5,7,0,9,8,
     5,0,0,8,6,8,7,9,0,7,8,5,3,2,6,9,9,8,4,6,6,5,6,4,0,5,
     6,4,0,3,9,4,5,7,5,8,4,0,0,7,9,1,3,1,2,9,6,3,9,9,3,5 >>

BNZero == <<0>>

(***************************************************************************)
(* Strings.                                                                *)
(***************************************************************************)
DigitChars == <<"0", "1", "2", "3", "4", "5", "6", "7", "8", "9">>

IsDigitChar(c) == \E d \in 1..10 : DigitChars[d] = c

CharValue(c) == (CHOOSE d \in 1..10 : DigitChars[d] = c) - 1

CharsToDigits(cs) == [i \in 1..Len(cs) |-> CharValue(cs[i])]

DigitsToChars(ds) == [i \in 1..Len(ds) |-> DigitChars[ds[i] + 1]]

\* Number.prototype.toString of a small natural number
RECURSIVE NatToChars(_)
NatToChars(n) ==
  IF n < 10 THEN <<DigitChars[n + 1]>>
  ELSE NatToChars(n \div 10) \o <<DigitChars[(n % 10) + 1]>>

(***************************************************************************)
(* The strings of the model and String.prototype.toLowerCase on them.      *)
(***************************************************************************)
\* src/app.js:28
WETH_ADDRESS == "0xC02aaA39b223FE8D0A0e5C4F27eAD9083C756Cc2"

\* The same address as a caller may spell it: all lower case.
WETH_LOWER == "0xc02aaa39b223fe8d0a0e5c4f27ead9083c756cc2"

\* An ERC-20 token that is not WETH.
TOKEN == "0xTOKEN"

toLowerCase(s) ==
  CASE s = "ETH" -> "eth"
    [] s = "Eth" -> "eth"
    [] s = "USDT" -> "usdt"
    [] s = WETH_ADDRESS -> WETH_LOWER
    [] s = TOKEN -> "0xtoken"
    [] OTHER -> s

\* The token strings a request body may carry ("" is a missing field).
TokenStrings == {"eth", "ETH", WETH_LOWER, TOKEN, "USDT"}

\* The amountIn strings a request body may carry (<<>> is a missing field).
AmountStrings ==
  {NatToChars(n) : n \in 1..MaxAmount}
    \cup {<<"1", "0">>, <<"0", ".", "5">>, <<"a", "b", "c">>}

(***************************************************************************)
(* ethers.utils.parseUnits and formatUnits.                                *)
(***************************************************************************)
DotPositions(cs) == {i \in 1..Len(cs) : cs[i] = "."}

RECURSIVE TrimTrailingZeros(_)
TrimTrailingZeros(cs) ==
  IF Len(cs) > 0 /\ cs[Len(cs)] = "0"
  THEN TrimTrailingZeros(SubSeq(cs, 1, Len(cs) - 1))
  ELSE cs

\* parseUnits(value, decimals): [ok |-> FALSE] when it throws.
parseUnits(value, decimals) ==
  LET dots == DotPositions(value)
      dot == IF dots = {} THEN Len(value) + 1 ELSE CHOOSE i \in dots : TRUE
      whole == SubSeq(value, 1, dot - 1)
      fraction == TrimTrailingZeros(SubSeq(value, dot + 1, Len(value)))
  IN  IF \/ Len(value) = 0
         \/ \E i \in 1..Len(value) : ~IsDigitChar(value[i]) /\ value[i] # "."
         \/ value = <<".">>
         \/ Cardinality(dots) > 1
         \/ Len(fraction) > decimals
      THEN [ok |-> FALSE, value |-> BNZero]
      ELSE [ok |-> TRUE,
            value |-> StripZeros(CharsToDigits(IF whole = <<>> THEN <<"0">> ELSE whole)
                                 \o CharsToDigits(fraction)
                                 \o Zeros(decimals - Len(fraction)))]

\* A formatting that keeps the whole units only.
formatUnitsWhole(value, decimals) ==
  IF Len(value) <= decimals
  THEN <<"0">>
  ELSE DigitsToChars(SubSeq(value, 1, Len(value) - decimals))

\* formatUnits(value, decimals) of a non-negative BigNumber
formatUnits(value, decimals) ==
  LET padded == IF Len(value) <= decimals
                THEN Zeros(decimals + 1 - Len(value)) \o value
                ELSE value
      whole == SubSeq(padded, 1, Len(padded) - decimals)
      frac == TrimTrailingZeros(
                DigitsToChars(SubSeq(padded, Len(padded) - decimals + 1, Len(padded))))
  IN  IF decimals = 0
      THEN DigitsToChars(whole)
      ELSE DigitsToChars(whole) \o <<".">> \o (IF frac = <<>> THEN <<"0">> ELSE frac)

(***************************************************************************)
(* The configuration and the pure helpers of src/app.js.                   *)
(***************************************************************************)
feeTiers == <<500, 3000, 10000>>

\* getTokenDecimals returns 18 for WETH without a network call
WETH_DECIMALS == 18

\* A resolver that compares the alias without lowering the case first.
toAddressCaseSensitive(tokenStr) ==
  IF tokenStr = ""
  THEN [ok |-> FALSE, value |-> ""]
  ELSE [ok |-> TRUE, value |-> IF tokenStr = "eth" THEN WETH_ADDRESS ELSE tokenStr]

\* toAddress: [ok |-> FALSE] when it throws "Invalid token string".
toAddress(tokenStr) ==
  IF tokenStr = ""
  THEN [ok |-> FALSE, value |-> ""]
  ELSE [ok |-> TRUE,
        value |-> IF toLowerCase(tokenStr) = "eth" THEN WETH_ADDRESS ELSE tokenStr]

\* getTokenDecimals answers without a network call exactly for WETH.
IsWeth(tokenAddress) == toLowerCase(tokenAddress) = toLowerCase(WETH_ADDRESS)

\* Slippage fractions are counted in thousandths: 0.005 is 5, 0.03 is 30.
BASE_SLIPPAGE == 5
MAX_SLIPPAGE == 30

Min(a, b) == IF a < b THEN a ELSE b

\* A classification that compares the addresses as they are spelled.
calculateSlippageCaseSensitive(tokenIn, tokenOut) ==
  IF tokenIn = WETH_ADDRESS /\ tokenOut = "usdt"
  THEN BASE_SLIPPAGE
  ELSE IF tokenIn = WETH_ADDRESS \/ tokenOut = WETH_ADDRESS
       THEN Min(BASE_SLIPPAGE * 2, MAX_SLIPPAGE)
       ELSE MAX_SLIPPAGE

calculateSlippage(tokenIn, tokenOut) ==
  IF IsWeth(tokenIn) /\ toLowerCase(tokenOut) = "usdt"
  THEN BASE_SLIPPAGE
  ELSE IF IsWeth(tokenIn) \/ IsWeth(tokenOut)
       THEN Min(BASE_SLIPPAGE * 2, MAX_SLIPPAGE)
       ELSE MAX_SLIPPAGE

\* amountOut.mul(100 - (dynamicSlippage * 100)).div(100), lines 189-191.
\* 100 - slippage*100 is a JavaScript number: 99.5, 99 and 97 for the three
\* slippages (in tenths: 1000 - thousandths).  BigNumber.mul converts its
\* argument with BigNumber.from, which throws (underflow) on a number with a
\* fractional part.
amountOutMinimumOf(amountOut, dynamicSlippage) ==
  LET tenths == 1000 - dynamicSlippage
  IN  IF tenths % 10 # 0
      THEN [ok |-> FALSE, value |-> BNZero]
      ELSE [ok |-> TRUE, value |-> BNDivInt(BNMulInt(amountOut, tenths \div 10), 100)]

(***************************************************************************)
(* The environment: the chain as the one signer sees it.  ERC-20 contracts *)
(* exist at WETH and at TOKEN; an address is a contract whatever its       *)
(* letter case.                                                            *)
(***************************************************************************)
\* Whole tokens the signer holds initially, of each token.
InitBalance == 1

ChainTokens == {toLowerCase(WETH_ADDRESS), toLowerCase(TOKEN)}

ChainKey(tokenAddress) == toLowerCase(tokenAddress)

DecimalsOf(key) == IF key = toLowerCase(WETH_ADDRESS) THEN WETH_DECIMALS ELSE TokenDecimals

WholeTokens(n, key) == parseUnits(NatToChars(n), DecimalsOf(key)).value

\* Allowances the router may hold initially: none, one whole token, unlimited.
AllowanceValues(key) == {BNZero, WholeTokens(1, key), MaxUint256}

\* Raw output amounts the quoting oracle may answer.
OracleOutputs == {<<1, 5, 0>>, <<5, 0, 0, 0, 0, 0, 0, 0, 0, 0>>}

(***************************************************************************)
(* Requests.                                                               *)
(***************************************************************************)
Reqs == {1, 2}

\* Authorization headers: absent, not a private key, a private key.
Authorizations == {"", "bad", "0xKEY"}

ValidKey(authorization) == authorization = "0xKEY"

\* wallet.address of the one signer
SIGNER == "0xSIGNER"

Bodies ==
  [amountIn : AmountStrings \cup {<<>>},
   tokenIn : TokenStrings \cup {""},
   tokenOut : TokenStrings \cup {""}]

\* The requests modelled side by side: swaps of WETH for TOKEN by the signer.
PairBodies ==
  [amountIn : {NatToChars(n) : n \in 1..MaxAmount},
   tokenIn : {"eth"},
   tokenOut : {TOKEN}]

NoParams ==
  [tokenIn |-> "", tokenOut |-> "", fee |-> 0, recipient |-> "",
   amountIn |-> <<>>, amountOutMinimum |-> <<>>, value |-> <<>>]

NoResult ==
  [transactionHash |-> "", feeTier |-> 0, amountOut |-> <<>>, amountOutRaw |-> <<>>]

IdleRequest ==
  [kind |-> "", authorization |-> "", amountIn |-> <<>>, tokenIn |-> "",
   tokenOut |-> "", pc |-> "idle", tokenInAddress |-> "", tokenOutAddress |-> "",
   amountInWei |-> <<>>, balance |-> <<>>, allowance |-> <<>>, feeIdx |-> 0,
   fee |-> 0, amountOut |-> <<>>, dynamicSlippage |-> 0,
   amountOutMinimum |-> <<>>, params |-> NoParams, approveMined |-> FALSE,
   approveAmount |-> <<>>, swapMined |-> FALSE, status |-> 0, error |-> "",
   result |-> NoResult, responses |-> 0,
   \* history, for stating the properties: the external calls issued, the
   \* quoter's answers, the call whose failure ended the request, and the
   \* requests that had been answered when this one arrived
   calls |-> <<>>, answers |-> <<>>, failedAt |-> "", arrivedAfter |-> {}]

VARIABLES
  req,      \* req[r]: the handler invocation r, its locals and what it has done
  chain     \* chain.balance[t], chain.allowance[t]: the signer's balance of
            \* token t and the router's allowance on it

vars == <<req, chain>>

\* An external call is issued: it is logged and the request waits for it.
Call(q, op) ==
  [q EXCEPT !.pc = op, !.calls = Append(@, [op |-> op, fee |-> 0])]

\* quoter.callStatic.quoteExactInputSingle for the i-th fee tier, line 75
CallQuoter(q, i) ==
  [q EXCEPT !.pc = "quote", !.feeIdx = i,
            !.calls = Append(@, [op |-> "quote", fee |-> feeTiers[i]])]

\* res.status(status).json({error})
RespondError(q, status, error) ==
  [q EXCEPT !.pc = "done", !.status = status, !.error = error,
            !.responses = @ + 1]

\* res.status(200).json(result)
RespondOk(q, result) ==
  [q EXCEPT !.pc = "done", !.status = 200, !.result = result,
            !.responses = @ + 1]

\* getBestQuote is entered: the first fee tier is tried.
getBestQuoteStart(q) == CallQuoter(q, 1)

\* A swap handler that follows the order of the quote handler: it asks for the
\* quote as soon as the amount is parsed.
AfterDecimalsQuotesFirst(q, decimals) ==
  LET parsed == parseUnits(q.amountIn, decimals)
  IN  IF ~parsed.ok
      THEN RespondError(q, 500, "invalid decimal value")
      ELSE getBestQuoteStart([q EXCEPT !.amountInWei = parsed.value])

\* A quote handler that goes through the balance check of the swap handler.
AfterDecimalsChecksBalance(q, decimals) ==
  LET parsed == parseUnits(q.amountIn, decimals)
  IN  IF ~parsed.ok
      THEN RespondError(q, 500, "invalid decimal value")
      ELSE Call([q EXCEPT !.amountInWei = parsed.value], "balanceOf")

\* parseAmountIn once the decimals are known (line 64), and the handler's
\* code after it up to the next external call.
AfterDecimals(q, decimals) ==
  LET parsed == parseUnits(q.amountIn, decimals)
      q1 == [q EXCEPT !.amountInWei = parsed.value]
  IN  IF ~parsed.ok
      THEN RespondError(q, 500, "invalid decimal value")
      ELSE IF q.kind = "swap"
           THEN Call(q1, "balanceOf")
           ELSE getBestQuoteStart(q1)

\* toAddress of both tokens, then parseAmountIn up to its decimals lookup
\* (lines 144-148 and 240-244).
ResolveAndParse(q) ==
  LET q1 == [q EXCEPT !.tokenInAddress = toAddress(q.tokenIn).value,
                       !.tokenOutAddress = toAddress(q.tokenOut).value]
  IN  IF ~toAddress(q.tokenIn).ok \/ ~toAddress(q.tokenOut).ok
      THEN RespondError(q, 500, "Invalid token string")
      ELSE IF q.amountIn = <<>>
           THEN RespondError(q1, 500, "Missing amountIn")
           ELSE IF IsWeth(q1.tokenInAddress)
                THEN AfterDecimals(q1, WETH_DECIMALS)
                ELSE Call(q1, "decimals")

MissingParameters(q) == q.amountIn = <<>> \/ q.tokenIn = "" \/ q.tokenOut = ""

\* A swap handler without the check of the Authorization header.
swapHandlerChecksBodyOnly(q) ==
  IF MissingParameters(q)
  THEN RespondError(q, 400, "Missing required parameters in request body")
  ELSE IF ~ValidKey(q.authorization)
       THEN RespondError(q, 500, "invalid private key")
       ELSE ResolveAndParse(q)

\* A swap handler that answers a missing Authorization header with 400.
swapHandlerUnauthorized400(q) ==
  IF q.authorization = ""
  THEN RespondError(q, 400, "Private key required in Authorization header")
  ELSE IF MissingParameters(q)
       THEN RespondError(q, 400, "Missing required parameters in request body")
       ELSE IF ~ValidKey(q.authorization)
            THEN RespondError(q, 500, "invalid private key")
            ELSE ResolveAndParse(q)

\* app.post('/swap'), from its entry to the first external call
swapHandler(q) ==
  IF q.authorization = ""
  THEN RespondError(q, 401, "Private key required in Authorization header")
  ELSE IF MissingParameters(q)
       THEN RespondError(q, 400, "Missing required parameters in request body")
       ELSE IF ~ValidKey(q.authorization)
            THEN RespondError(q, 500, "invalid private key")
            ELSE ResolveAndParse(q)

\* app.post('/quote'), from its entry to the first external call
quoteHandler(q) ==
  IF MissingParameters(q)
  THEN RespondError(q, 400, "Missing required parameters in request body")
  ELSE ResolveAndParse(q)

NewRequest(kind, authorization, body, finished) ==
  [IdleRequest EXCEPT !.kind = kind, !.authorization = authorization,
                      !.amountIn = body.amountIn, !.tokenIn = body.tokenIn,
                      !.tokenOut = body.tokenOut, !.arrivedAfter = finished]

Finished == {x \in Reqs : req[x].pc = "done"}

\* Requests are numbered in their order of arrival.  A second request is
\* modelled beside a first one when both are swaps of PairBodies by the signer:
\* requests share no state in the process, they meet only on chain.
MayArrive(r, kind, authorization, body) ==
  \/ r = 1
  \/ /\ r = 2
     /\ req[1].pc # "idle"
     /\ req[1].kind = "swap" /\ kind = "swap"
     /\ ValidKey(req[1].authorization) /\ ValidKey(authorization)
     /\ [amountIn |-> req[1].amountIn, tokenIn |-> req[1].tokenIn,
         tokenOut |-> req[1].tokenOut] \in PairBodies
     /\ body \in PairBodies

Init ==
  /\ req = [r \in Reqs |-> IdleRequest]
  /\ \E allowance \in [ChainTokens -> UNION {AllowanceValues(t) : t \in ChainTokens}] :
       /\ \A t \in ChainTokens : allowance[t] \in AllowanceValues(t)
       /\ chain = [balance |-> [t \in ChainTokens |-> WholeTokens(InitBalance, t)],
                   allowance |-> allowance]

(***************************************************************************)
(* The handlers, one action per return of an external call.                *)
(***************************************************************************)
\* POST /swap arrives.
SwapRequest(r) ==
  /\ req[r].pc = "idle"
  /\ \E authorization \in Authorizations, body \in Bodies :
       /\ MayArrive(r, "swap", authorization, body)
       /\ req' = [req EXCEPT ![r] = swapHandler(NewRequest("swap", authorization, body, Finished))]
  /\ UNCHANGED chain

\* POST /quote arrives.
QuoteRequest(r) ==
  /\ req[r].pc = "idle"
  /\ \E body \in Bodies :
       /\ MayArrive(r, "quote", "", body)
       /\ req' = [req EXCEPT ![r] = quoteHandler(NewRequest("quote", "", body, Finished))]
  /\ UNCHANGED chain

\* A handler that issues the failed call again.
ThrowsAndRetries(q) == Call(q, q.pc)

\* The pending call of a handler outside getBestQuote rejects (an RPC error, a
\* reverted call or transaction): the handler's catch answers 500.
Throws(q) == RespondError([q EXCEPT !.failedAt = q.pc], 500, "call failed")

\* A handler that revokes the allowance it had approved when a later call fails.
CallFailsRevokes(r) ==
  /\ req[r].pc \in {"decimals", "balanceOf", "allowance", "approve",
                    "approveWait", "swap", "swapWait", "outDecimals"}
  /\ req' = [req EXCEPT ![r] = Throws(req[r])]
  /\ chain' = IF req[r].approveMined
              THEN [chain EXCEPT !.allowance[ChainKey(req[r].tokenInAddress)] = BNZero]
              ELSE chain

CallFails(r) ==
  /\ req[r].pc \in {"decimals", "balanceOf", "allowance", "approve",
                    "approveWait", "swap", "swapWait", "outDecimals"}
  /\ req' = [req EXCEPT ![r] = Throws(req[r])]
  /\ UNCHANGED chain

\* contract.decimals() of the input token returns (line 53).
DecimalsReturns(r) ==
  /\ req[r].pc = "decimals"
  /\ ChainKey(req[r].tokenInAddress) \in ChainTokens
  /\ req' = [req EXCEPT ![r] =
               AfterDecimals(req[r], DecimalsOf(ChainKey(req[r].tokenInAddress)))]
  /\ UNCHANGED chain

\* A handler without the balance check.
AfterBalanceUnchecked(q, balance) == Call([q EXCEPT !.balance = balance], "allowance")

\* A balance check that answers 400 without returning from the handler.
AfterBalanceNoReturn(q, balance) ==
  LET q1 == [q EXCEPT !.balance = balance]
  IN  IF BNLt(balance, q.amountInWei)
      THEN Call([q1 EXCEPT !.status = 400, !.error = "Insufficient token balance.",
                           !.responses = @ + 1],
                "allowance")
      ELSE Call(q1, "allowance")

\* The balance check of lines 167-170 on the balance read.
AfterBalance(q, balance) ==
  LET q1 == [q EXCEPT !.balance = balance]
  IN  IF BNLt(balance, q.amountInWei)
      THEN RespondError(q1, 400, "Insufficient token balance.")
      ELSE Call(q1, "allowance")

\* A balance read that waits while another request of the same token is
\* between its balance check and the mining of its swap.
BalanceOfReturnsLocked(r) ==
  /\ req[r].pc = "balanceOf"
  /\ ChainKey(req[r].tokenInAddress) \in ChainTokens
  /\ \A n \in Reqs \ {r} :
       ~(/\ req[n].pc \in {"allowance", "approve", "approveWait", "quote",
                           "swap", "swapWait"}
         /\ ChainKey(req[n].tokenInAddress) = ChainKey(req[r].tokenInAddress))
  /\ req' = [req EXCEPT ![r] =
               AfterBalance(req[r], chain.balance[ChainKey(req[r].tokenInAddress)])]
  /\ UNCHANGED chain

\* tokenContract.balanceOf(wallet.address) returns.
BalanceOfReturns(r) ==
  /\ req[r].pc = "balanceOf"
  /\ ChainKey(req[r].tokenInAddress) \in ChainTokens
  /\ req' = [req EXCEPT ![r] =
               AfterBalance(req[r], chain.balance[ChainKey(req[r].tokenInAddress)])]
  /\ UNCHANGED chain

\* The allowance check of lines 173-184 on the allowance read.
AfterAllowance(q, allowance) ==
  LET q1 == [q EXCEPT !.allowance = allowance]
  IN  IF BNLt(allowance, q.amountInWei)
      THEN Call([q1 EXCEPT !.approveAmount = MaxUint256], "approve")
      ELSE getBestQuoteStart(q1)

\* A handler that holds a lock of the signer from the allowance read to the
\* mined approval.
AllowanceReturnsLocked(r) ==
  /\ req[r].pc = "allowance"
  /\ \A x \in Reqs \ {r} : req[x].pc \notin {"approve", "approveWait"}
  /\ req' = [req EXCEPT ![r] =
               AfterAllowance(req[r], chain.allowance[ChainKey(req[r].tokenInAddress)])]
  /\ UNCHANGED chain

\* tokenContract.allowance(wallet.address, router) returns.
AllowanceReturns(r) ==
  /\ req[r].pc = "allowance"
  /\ req' = [req EXCEPT ![r] =
               AfterAllowance(req[r], chain.allowance[ChainKey(req[r].tokenInAddress)])]
  /\ UNCHANGED chain

\* A handler that does not wait for the approval to be mined.
ApproveReturnsNoWait(r) ==
  /\ req[r].pc = "approve"
  /\ req' = [req EXCEPT ![r] = getBestQuoteStart(req[r])]
  /\ UNCHANGED chain

\* tokenContract.approve(router, MaxUint256) returns the submitted transaction.
ApproveReturns(r) ==
  /\ req[r].pc = "approve"
  /\ req' = [req EXCEPT ![r] = Call(req[r], "approveWait")]
  /\ UNCHANGED chain

\* The handler's code after approveTx.wait() (line 179).
AfterApproval(q) == getBestQuoteStart([q EXCEPT !.approveMined = TRUE])

\* approveTx.wait() returns: the approval is mined.
ApproveMined(r) ==
  /\ req[r].pc = "approveWait"
  /\ chain' = [chain EXCEPT !.allowance[ChainKey(req[r].tokenInAddress)] =
                                req[r].approveAmount]
  /\ req' = [req EXCEPT ![r] = AfterApproval(req[r])]

\* Swap parameters that attach the input amount as native value.
SwapParamsSendsValue(q, fee, amountOutMinimum) ==
  [tokenIn |-> q.tokenInAddress, tokenOut |-> q.tokenOutAddress, fee |-> fee,
   recipient |-> SIGNER, amountIn |-> q.amountInWei,
   amountOutMinimum |-> amountOutMinimum, value |-> q.amountInWei]

\* The swap parameters of lines 195-204 and the options of lines 208-209.
SwapParams(q, fee, amountOutMinimum) ==
  [tokenIn |-> q.tokenInAddress, tokenOut |-> q.tokenOutAddress, fee |-> fee,
   recipient |-> SIGNER, amountIn |-> q.amountInWei,
   amountOutMinimum |-> amountOutMinimum, value |-> BNZero]

\* The swap handler after getBestQuote returned (lines 184-207).
AfterQuoteSwap(q, fee, amountOut) ==
  LET slippage == calculateSlippage(q.tokenInAddress, q.tokenOutAddress)
      minimum == amountOutMinimumOf(amountOut, slippage)
      q1 == [q EXCEPT !.fee = fee, !.amountOut = amountOut,
                      !.dynamicSlippage = slippage]
  IN  IF ~minimum.ok
      THEN RespondError(q1, 500, "underflow")
      ELSE Call([q1 EXCEPT !.amountOutMinimum = minimum.value,
                           !.params = SwapParams(q, fee, minimum.value)],
                "swap")

\* The quote handler after getBestQuote returned (lines 247-250).
AfterQuoteQuote(q, fee, amountOut) ==
  LET q1 == [q EXCEPT !.fee = fee, !.amountOut = amountOut]
  IN  IF IsWeth(q.tokenOutAddress)
      THEN RespondOk(q1, [NoResult EXCEPT
                            !.feeTier = fee,
                            !.amountOut = formatUnits(amountOut, WETH_DECIMALS),
                            !.amountOutRaw = DigitsToChars(amountOut)])
      ELSE Call(q1, "outDecimals")

\* A getBestQuote that goes on to the remaining tiers after a success, looking
\* for a better price.
QuoteResultKeepsSearching(q, amountOut) ==
  IF q.feeIdx < Len(feeTiers)
  THEN CallQuoter([q EXCEPT !.fee = feeTiers[q.feeIdx], !.amountOut = amountOut],
                  q.feeIdx + 1)
  ELSE IF q.kind = "swap"
       THEN AfterQuoteSwap(q, feeTiers[q.feeIdx], amountOut)
       ELSE AfterQuoteQuote(q, feeTiers[q.feeIdx], amountOut)

\* getBestQuote returns {fee, amountOut} (line 83).
QuoteResult(q, amountOut) ==
  IF q.kind = "swap"
  THEN AfterQuoteSwap(q, feeTiers[q.feeIdx], amountOut)
  ELSE AfterQuoteQuote(q, feeTiers[q.feeIdx], amountOut)

\* The quoter's answer for the fee tier tried is noted.
Answered(q, ok, amountOut) ==
  [q EXCEPT !.answers =
     Append(@, [fee |-> feeTiers[q.feeIdx], ok |-> ok, amountOut |-> amountOut])]

\* The quoter answers for the fee tier tried.
QuoteSucceeds(r) ==
  /\ req[r].pc = "quote"
  /\ \E amountOut \in OracleOutputs :
       req' = [req EXCEPT ![r] =
                 QuoteResult(Answered(req[r], TRUE, amountOut), amountOut)]
  /\ UNCHANGED chain

\* A getBestQuote that gives up at the first tier that fails.
QuoteCatchGivesUp(q) ==
  RespondError([q EXCEPT !.failedAt = "quote"], 500,
               "No valid liquidity pool found.")

\* The catch of lines 84-86 and the loop's next round, or line 88.
QuoteCatch(q) ==
  IF q.feeIdx < Len(feeTiers)
  THEN CallQuoter(q, q.feeIdx + 1)
  ELSE RespondError([q EXCEPT !.failedAt = "quote"], 500,
                    "No valid liquidity pool found.")

\* The quoter call for the fee tier tried rejects.
QuoteFails(r) ==
  /\ req[r].pc = "quote"
  /\ req' = [req EXCEPT ![r] = QuoteCatch(Answered(req[r], FALSE, BNZero))]
  /\ UNCHANGED chain

\* contract.decimals() of the output token returns (line 250), lines 251-257.
OutDecimalsReturns(r) ==
  /\ req[r].pc = "outDecimals"
  /\ ChainKey(req[r].tokenOutAddress) \in ChainTokens
  /\ req' = [req EXCEPT ![r] =
               RespondOk(req[r],
                 [NoResult EXCEPT
                    !.feeTier = req[r].fee,
                    !.amountOut = formatUnits(req[r].amountOut,
                                    DecimalsOf(ChainKey(req[r].tokenOutAddress))),
                    !.amountOutRaw = DigitsToChars(req[r].amountOut)])]
  /\ UNCHANGED chain

\* A handler that answers with the hash of the submitted transaction without
\* waiting for it to be mined.
SwapReturnsNoWait(r) ==
  /\ req[r].pc = "swap"
  /\ req' = [req EXCEPT ![r] =
               RespondOk(req[r], [NoResult EXCEPT !.transactionHash = "0xTX"])]
  /\ UNCHANGED chain

\* router.exactInputSingle(params, ...) returns the submitted transaction.
SwapReturns(r) ==
  /\ req[r].pc = "swap"
  /\ req' = [req EXCEPT ![r] = Call(req[r], "swapWait")]
  /\ UNCHANGED chain

\* The router's transfer of the input token from the signer, and of the
\* output token to the recipient.
Debit(c, key, amount) ==
  [c EXCEPT !.balance[key] = BNSub(@, amount),
            !.allowance[key] = IF @ = MaxUint256 THEN @ ELSE BNSub(@, amount)]

Credit(c, key, amount) ==
  IF key \in ChainTokens THEN [c EXCEPT !.balance[key] = BNAdd(@, amount)] ELSE c

\* swapTx.wait() returns the receipt: the swap is mined (lines 211-213).
SwapMined(r) ==
  LET q == req[r]
      key == ChainKey(q.tokenInAddress)
  IN  /\ q.pc = "swapWait"
      /\ BNGte(chain.balance[key], q.params.amountIn)
      /\ BNGte(chain.allowance[key], q.params.amountIn)
      /\ chain' = Credit(Debit(chain, key, q.params.amountIn),
                         ChainKey(q.tokenOutAddress), q.amountOut)
      /\ req' = [req EXCEPT ![r] =
                   RespondOk([q EXCEPT !.swapMined = TRUE],
                             [NoResult EXCEPT !.transactionHash = "0xTX"])]

Next ==
  \E r \in Reqs :
    \/ SwapRequest(r)
    \/ QuoteRequest(r)
    \/ CallFails(r)
    \/ DecimalsReturns(r)
    \/ BalanceOfReturns(r)
    \/ AllowanceReturns(r)
    \/ ApproveReturns(r)
    \/ ApproveMined(r)
    \/ QuoteSucceeds(r)
    \/ QuoteFails(r)
    \/ OutDecimalsReturns(r)
    \/ SwapReturns(r)
    \/ SwapMined(r)

Spec == Init /\ [][Next]_vars

\* The pending external call of request r returns, with a value or an error.
Returns(r) ==
  \/ CallFails(r)
  \/ QuoteFails(r)
  \/ DecimalsReturns(r)
  \/ BalanceOfReturns(r)
  \/ AllowanceReturns(r)
  \/ ApproveReturns(r)
  \/ ApproveMined(r)
  \/ QuoteSucceeds(r)
  \/ OutDecimalsReturns(r)
  \/ SwapReturns(r)
  \/ SwapMined(r)

\* The handlers under the assumption that no external call hangs: every
\* awaited call is eventually resolved or rejected.
FairSpec == Spec /\ \A r \in Reqs : WF_vars(Returns(r))

(***************************************************************************)
(* What a request has done, read from its history.                         *)
(***************************************************************************)
IsQuoteCall(c) == c.op = "quote"

\* The fee tiers for which the quoter was called, in the order of the calls.
FeesTried(q) ==
  LET qs == SelectSeq(q.calls, IsQuoteCall)
  IN  [i \in 1..Len(qs) |-> qs[i].fee]

CountCalls(q, op) == Cardinality({i \in 1..Len(q.calls) : q.calls[i].op = op})

Called(q, op) == CountCalls(q, op) > 0

IsPrefix(s, t) == Len(s) <= Len(t) /\ s = SubSeq(t, 1, Len(s))

Last(s) == s[Len(s)]

AllFailed(answers) == \A i \in 1..Len(answers) : ~answers[i].ok

NoLiquidity(q) == q.pc = "done" /\ q.error = "No valid liquidity pool found."

InsufficientBalance(q) == q.pc = "done" /\ q.error = "Insufficient token balance."

(***************************************************************************)
(* C1: getBestQuote calls the quoter for the fee tiers 500, 3000, 10000 in *)
(* that order, one call at a time; no tier is tried after a tier that      *)
(* succeeded, and the fee and amount it returns are those of the first     *)
(* tier whose call succeeded.                                              *)
(***************************************************************************)
C1_FirstSuccessWins ==
  \A r \in Reqs :
    LET q == req[r]
        tried == FeesTried(q)
        n == Len(q.answers)
    IN  /\ IsPrefix(tried, <<500, 3000, 10000>>)
        /\ Len(tried) = (IF q.pc = "quote" THEN n + 1 ELSE n)
        /\ \A i \in 1..n :
             /\ q.answers[i].fee = tried[i]
             /\ i < n => ~q.answers[i].ok
        /\ (n > 0 /\ Last(q.answers).ok) <=> q.fee # 0
        /\ q.fee # 0 =>
             /\ q.fee = Last(q.answers).fee
             /\ q.amountOut = Last(q.answers).amountOut
             /\ q.pc # "quote"

\* Tiers 500 and 3000 failed, 10000 answered 5000000000: the result is
\* {10000, 5000000000}.
C1_Witness ==
  \E r \in Reqs :
    /\ Len(req[r].answers) = 3
    /\ ~req[r].answers[1].ok /\ ~req[r].answers[2].ok
    /\ req[r].answers[3] = [fee |-> 10000, ok |-> TRUE, amountOut |-> <<5, 0, 0, 0, 0, 0, 0, 0, 0, 0>>]
    /\ req[r].fee = 10000
    /\ req[r].amountOut = <<5, 0, 0, 0, 0, 0, 0, 0, 0, 0>>

(***************************************************************************)
(* C2: a request ends with "No valid liquidity pool found." exactly when   *)
(* the quoter was called once for each of the fee tiers and each call      *)
(* failed; after a failed call for a tier that is not the last, the next   *)
(* tier is tried.                                                          *)
(***************************************************************************)
C2_NoLiquidityIffAllTiersFailed ==
  \A r \in Reqs :
    LET q == req[r]
    IN  /\ NoLiquidity(q) <=>
             /\ FeesTried(q) = feeTiers
             /\ Len(q.answers) = Len(feeTiers)
             /\ AllFailed(q.answers)
        /\ (q.answers # <<>> /\ AllFailed(q.answers) /\ Len(q.answers) < Len(feeTiers)) =>
             /\ q.pc = "quote"
             /\ q.status = 0
             /\ Len(FeesTried(q)) = Len(q.answers) + 1

C2_Witness ==
  \E r \in Reqs :
    /\ NoLiquidity(req[r])
    /\ Len(req[r].answers) = 3
    /\ AllFailed(req[r].answers)

(***************************************************************************)
(* C3: a swap request whose balance read is less than the normalized       *)
(* amount is answered "Insufficient token balance." and issues no          *)
(* allowance read, approval, quoter call or swap.                          *)
(***************************************************************************)
C3_InsufficientBalanceStops ==
  \A r \in Reqs :
    LET q == req[r]
    IN  (q.balance # <<>> /\ BNLt(q.balance, q.amountInWei)) =>
          /\ InsufficientBalance(q)
          /\ \A op \in {"allowance", "approve", "approveWait", "quote", "swap", "swapWait"} :
               ~Called(q, op)

C3_Witness ==
  \E r \in Reqs :
    /\ req[r].kind = "swap"
    /\ req[r].balance # <<>>
    /\ BNLt(req[r].balance, req[r].amountInWei)
    /\ req[r].pc = "done"

(***************************************************************************)
(* C4: when the allowance read is less than the normalized amount, the     *)
(* request submits one approval, of MaxUint256, and calls the quoter and   *)
(* the router only after that approval is mined; when the allowance read   *)
(* covers the amount, it submits no approval.  A swap is submitted only    *)
(* after an allowance read that covers the amount or a mined approval.     *)
(***************************************************************************)
C4_ApprovalBeforeQuote ==
  \A r \in Reqs :
    LET q == req[r]
    IN  /\ q.allowance = <<>> =>
             \A op \in {"approve", "approveWait", "quote", "swap"} :
               q.kind = "swap" => ~Called(q, op)
        /\ (q.allowance # <<>> /\ BNLt(q.allowance, q.amountInWei)) =>
             /\ CountCalls(q, "approve") = 1
             /\ q.approveAmount = MaxUint256
             /\ (Called(q, "quote") \/ Called(q, "swap")) =>
                  /\ q.approveMined
                  /\ CountCalls(q, "approveWait") = 1
                  /\ \A i, j \in 1..Len(q.calls) :
                       (q.calls[i].op \in {"approve", "approveWait"}
                          /\ q.calls[j].op \in {"quote", "swap"}) => i < j
        /\ (q.allowance # <<>> /\ BNGte(q.allowance, q.amountInWei)) =>
             /\ ~Called(q, "approve")
             /\ ~Called(q, "approveWait")
             /\ ~q.approveMined
        /\ Called(q, "swap") =>
             /\ q.allowance # <<>>
             /\ BNGte(q.allowance, q.amountInWei) \/ q.approveMined

\* A swap submitted after an insufficient allowance read and a mined approval.
C4_Witness ==
  \E r \in Reqs :
    /\ req[r].allowance # <<>>
    /\ BNLt(req[r].allowance, req[r].amountInWei)
    /\ req[r].approveMined
    /\ Called(req[r], "swap")

(***************************************************************************)
(* C5: a swap request without an Authorization header is answered with a   *)
(* client-error status and issues no external call, whatever its body.     *)
(***************************************************************************)
C5_NoCredentialNoCall ==
  \A r \in Reqs :
    LET q == req[r]
    IN  (q.kind = "swap" /\ q.authorization = "") =>
          /\ q.pc = "done"
          /\ q.status \in 400..499
          /\ q.calls = <<>>

\* Such a request whose body is complete.
C5_Witness ==
  \E r \in Reqs :
    /\ req[r].kind = "swap"
    /\ req[r].authorization = ""
    /\ ~MissingParameters(req[r])
    /\ req[r].status = 401

(***************************************************************************)
(* C6: a request submits the router swap at most once; the response with   *)
(* the transaction hash is sent only after the one swap of the request was *)
(* submitted and mined.                                                    *)
(***************************************************************************)
C6_SwapSubmittedOnce ==
  \A r \in Reqs :
    LET q == req[r]
    IN  /\ CountCalls(q, "swap") <= 1
        /\ CountCalls(q, "swapWait") <= CountCalls(q, "swap")
        /\ q.swapMined => Called(q, "swapWait")
        /\ (q.kind = "swap" /\ q.status = 200) <=> q.result.transactionHash # ""
        /\ q.result.transactionHash # "" =>
             /\ CountCalls(q, "swap") = 1
             /\ CountCalls(q, "swapWait") = 1
             /\ q.swapMined

C6_Witness ==
  \E r \in Reqs :
    /\ req[r].kind = "swap"
    /\ req[r].status = 200
    /\ req[r].swapMined

(***************************************************************************)
(* C7: the failure of a step (an external call outside the quote step, or  *)
(* the quote step as a whole) ends the request in the same step with an    *)
(* error response; an answered request issues no further call and takes no *)
(* further step, and no call is issued twice.                              *)
(***************************************************************************)
NoCallTwice(q) ==
  \A i, j \in 1..Len(q.calls) : i # j => q.calls[i] # q.calls[j]

C7_TerminalOnFirstFailure ==
  [][\A r \in Reqs :
       /\ req[r].pc = "done" => req'[r] = req[r]
       /\ NoCallTwice(req'[r])
       /\ (req[r].failedAt = "" /\ req'[r].failedAt # "") =>
            /\ req'[r].failedAt = req[r].pc
            /\ req'[r].pc = "done"
            /\ req'[r].status = 500
            /\ req'[r].responses = 1
            /\ req'[r].calls = req[r].calls
            /\ chain' = chain]_vars

\* A request ended by the failure of the wait for its swap transaction.
C7_Witness ==
  \E r \in Reqs :
    /\ req[r].failedAt = "swapWait"
    /\ req[r].pc = "done"
    /\ req[r].status = 500

(***************************************************************************)
(* C8: a request whose approval was mined and which then failed has issued *)
(* one approval and nothing that lowers the allowance, which is still the  *)
(* approved one; a swap request of the same token that arrives after it    *)
(* reads an allowance that covers its amount and submits no approval.      *)
(***************************************************************************)
FailedAfterApproval(q) == q.approveMined /\ q.pc = "done" /\ q.status = 500

C8_ApprovalLeftInPlace ==
  \A r \in Reqs :
    LET q == req[r]
        key == ChainKey(q.tokenInAddress)
    IN  FailedAfterApproval(q) =>
          /\ CountCalls(q, "approve") = 1
          /\ chain.allowance[key] = q.approveAmount
          /\ \A n \in Reqs :
               (r \in req[n].arrivedAfter
                  /\ req[n].kind = "swap"
                  /\ ChainKey(req[n].tokenInAddress) = key
                  /\ req[n].allowance # <<>>) =>
                 /\ BNGte(req[n].allowance, req[n].amountInWei)
                 /\ ~Called(req[n], "approve")

\* The later request has read the allowance and gone on to the quote.
C8_Witness ==
  \E r, n \in Reqs :
    /\ FailedAfterApproval(req[r])
    /\ r \in req[n].arrivedAfter
    /\ req[n].allowance # <<>>
    /\ Called(req[n], "quote")

(***************************************************************************)
(* C9: no mutual exclusion across requests: while one request is between   *)
(* its insufficient allowance read and the mining of its approval, the     *)
(* allowance read of another request of the same token can return, and it  *)
(* leads that request to submit an approval as well.                       *)
(***************************************************************************)
C9_NoMutualExclusion ==
  \A r, n \in Reqs :
    (/\ r # n
     /\ req[r].pc \in {"approve", "approveWait"}
     /\ req[n].pc = "allowance"
     /\ ChainKey(req[n].tokenInAddress) = ChainKey(req[r].tokenInAddress)
     /\ BNLt(chain.allowance[ChainKey(req[n].tokenInAddress)], req[n].amountInWei))
    => ENABLED (AllowanceReturns(n) /\ req'[n].pc = "approve")

\* Both requests have read the insufficient allowance and submitted an
\* approval, and neither approval is mined.
C9_Witness ==
  /\ \A r \in Reqs :
       /\ req[r].pc \in {"approve", "approveWait"}
       /\ BNLt(req[r].allowance, req[r].amountInWei)
       /\ CountCalls(req[r], "approve") = 1
       /\ ~req[r].approveMined
  /\ ChainKey(req[1].tokenInAddress) = ChainKey(req[2].tokenInAddress)

(***************************************************************************)
(* C10: the slippage of a swap by its resolved tokens: 0.5% when tokenIn   *)
(* is WETH and tokenOut is "usdt"; otherwise 1.0% when tokenIn or tokenOut *)
(* is WETH; 3.0% when neither is; in whatever letter case the tokens are   *)
(* spelled.  (Slippages in thousandths.)                                   *)
(***************************************************************************)
WethSpellings == {WETH_ADDRESS, WETH_LOWER}

StableSpellings == {"usdt", "USDT"}

SlippageComputed(q) == q.dynamicSlippage # 0

\* The claim as stated: 1.0% when exactly one of the tokens is WETH, and only then.
C10_ExactlyOneWrappedNative ==
  \A r \in Reqs :
    LET q == req[r]
        wethIn == q.tokenInAddress \in WethSpellings
        wethOut == q.tokenOutAddress \in WethSpellings
        stable == wethIn /\ q.tokenOutAddress \in StableSpellings
    IN  SlippageComputed(q) =>
          /\ stable => q.dynamicSlippage = 5
          /\ (~stable /\ wethIn # wethOut) => q.dynamicSlippage = 10
          /\ (~wethIn /\ ~wethOut) => q.dynamicSlippage = 30
          /\ q.dynamicSlippage = 10 => (wethIn # wethOut)

\* The claim as amended: 1.0% when at least one of the tokens is WETH.
C10_AtLeastOneWrappedNative ==
  \A r \in Reqs :
    LET q == req[r]
        wethIn == q.tokenInAddress \in WethSpellings
        wethOut == q.tokenOutAddress \in WethSpellings
        stable == wethIn /\ q.tokenOutAddress \in StableSpellings
    IN  SlippageComputed(q) =>
          /\ stable <=> q.dynamicSlippage = 5
          /\ (~stable /\ (wethIn \/ wethOut)) <=> q.dynamicSlippage = 10
          /\ (~wethIn /\ ~wethOut) <=> q.dynamicSlippage = 30

\* A swap of WETH for WETH is given 1.0%.
C10_Witness ==
  \E r \in Reqs :
    /\ req[r].tokenInAddress \in WethSpellings
    /\ req[r].tokenOutAddress \in WethSpellings
    /\ req[r].dynamicSlippage = 10

(***************************************************************************)
(* C11: once a swap request has its quote, its amountOutMinimum is         *)
(* amountOut * (100 - bound*100) / 100 with truncating division, for each  *)
(* of the bounds 0.5%, 1.0% and 3.0% (in thousandths: amountOut times      *)
(* 1000 - bound, divided by 1000); 1000000 at 0.5% gives 995000.           *)
(***************************************************************************)
MinimumOutput(amountOut, bound) == BNDivInt(BNMulInt(amountOut, 1000 - bound), 1000)

C11_MinimumOutput ==
  \A r \in Reqs :
    LET q == req[r]
    IN  (q.kind = "swap" /\ q.fee # 0) =>
          /\ q.dynamicSlippage \in {5, 10, 30}
          /\ q.amountOutMinimum = MinimumOutput(q.amountOut, q.dynamicSlippage)

(***************************************************************************)
(* C12: the status of an error response by the cause of the failure, on    *)
(* both handlers.                                                          *)
(***************************************************************************)
NoCredential(q) == q.kind = "swap" /\ q.authorization = ""

BalanceTooLow(q) == q.balance # <<>> /\ BNLt(q.balance, q.amountInWei)

AllTiersFailed(q) == Len(q.answers) = Len(feeTiers) /\ AllFailed(q.answers)

\* The claim as stated: 400 for a missing credential or body field, 500 for an
\* insufficient balance, no liquidity or a failed call.
C12_Status400Or500 ==
  \A r \in Reqs :
    LET q == req[r]
    IN  q.pc = "done" =>
          /\ (NoCredential(q) \/ MissingParameters(q)) => q.status = 400
          /\ (BalanceTooLow(q) \/ AllTiersFailed(q) \/ q.failedAt # "") => q.status = 500

\* The claim as amended: 401 for a missing credential, 400 for a missing body
\* field and for an insufficient balance, 500 for no liquidity or a failed call.
C12_StatusByCause ==
  \A r \in Reqs :
    LET q == req[r]
    IN  q.pc = "done" =>
          /\ NoCredential(q) => q.status = 401
          /\ (MissingParameters(q) /\ ~NoCredential(q)) => q.status = 400
          /\ BalanceTooLow(q) => q.status = 400
          /\ (AllTiersFailed(q) \/ q.failedAt # "") => q.status = 500

\* A swap request with a private key answered 400 after its balance read.
C12_Witness ==
  \E r \in Reqs :
    /\ req[r].pc = "done"
    /\ ValidKey(req[r].authorization)
    /\ BalanceTooLow(req[r])
    /\ req[r].status = 400

(***************************************************************************)
(* C13: a request whose fields are all present but whose amountIn is not a *)
(* valid decimal string for the token's precision (parseUnits throws) is   *)
(* answered with a client-error status, on the quote and the swap path.    *)
(***************************************************************************)
AmountMalformed(q) == q.pc = "done" /\ q.error = "invalid decimal value"

C13_MalformedIsClientError ==
  \A r \in Reqs :
    AmountMalformed(req[r]) => req[r].status \in 400..499

(***************************************************************************)
(* C14: a quote request issues no balance read, allowance read, approval   *)
(* or swap: its external calls are decimals lookups and quoter calls, it   *)
(* holds no signer, and none of its steps changes the chain.               *)
(***************************************************************************)
C14_QuoteReadsOnly ==
  [][\A r \in Reqs :
       req'[r].kind = "quote" =>
         /\ \A i \in 1..Len(req'[r].calls) :
              req'[r].calls[i].op \in {"decimals", "quote", "outDecimals"}
         /\ req'[r].authorization = ""
         /\ req'[r].balance = <<>> /\ req'[r].allowance = <<>>
         /\ ~req'[r].approveMined /\ ~req'[r].swapMined
         /\ req'[r] # req[r] => chain' = chain]_vars

\* A quote request answered after a decimals lookup of each token and a
\* quoter call.
C14_Witness ==
  \E r \in Reqs :
    /\ req[r].kind = "quote"
    /\ req[r].status = 200
    /\ Called(req[r], "decimals")
    /\ Called(req[r], "quote")
    /\ Called(req[r], "outDecimals")

(***************************************************************************)
(* C15: toAddress returns the wrapped-native address for every spelling of *)
(* the alias "eth", returns any other non-empty string unchanged, throws   *)
(* only on an empty string, and gives the same result for the same input.  *)
(***************************************************************************)
NativeAliases == {"eth", "ETH"}

Resolve(tokenStr) == IF tokenStr \in NativeAliases THEN WETH_ADDRESS ELSE tokenStr

\* The request has passed lines 144-145 / 240-241.
Resolved(q) == q.tokenInAddress # "" \/ q.tokenOutAddress # ""

C15_TokenResolution ==
  /\ \A r \in Reqs :
       /\ req[r].error # "Invalid token string"
       /\ Resolved(req[r]) =>
            /\ req[r].tokenIn # "" /\ req[r].tokenOut # ""
            /\ req[r].tokenInAddress = Resolve(req[r].tokenIn)
            /\ req[r].tokenOutAddress = Resolve(req[r].tokenOut)
            /\ toAddress(req[r].tokenIn) = [ok |-> TRUE, value |-> req[r].tokenInAddress]
            /\ toAddress(req[r].tokenOut) = [ok |-> TRUE, value |-> req[r].tokenOutAddress]
  /\ \A r, n \in Reqs :
       (Resolved(req[r]) /\ Resolved(req[n]) /\ req[r].tokenIn = req[n].tokenIn)
         => req[r].tokenInAddress = req[n].tokenInAddress
  /\ ~toAddress("").ok

\* The upper-case alias resolved to WETH_ADDRESS beside an address left as it
\* was given.
C15_Witness ==
  \E r \in Reqs :
    /\ req[r].tokenIn = "ETH"
    /\ req[r].tokenInAddress = WETH_ADDRESS
    /\ req[r].tokenOut = TOKEN
    /\ req[r].tokenOutAddress = TOKEN

(***************************************************************************)
(* C16: a successful quote response carries the fee tier and the raw       *)
(* output of the first tier that answered, and amountOut is that raw       *)
(* output scaled down by the decimals of the output token: 18 without a    *)
(* call for WETH, the contract's decimals() otherwise.                     *)
(***************************************************************************)
QuoteAnswered(q) == q.kind = "quote" /\ q.pc = "done" /\ q.status = 200

\* The decimals of the output token of an answered quote.
OutDecimals(q) ==
  IF IsWeth(q.tokenOutAddress) THEN WETH_DECIMALS ELSE TokenDecimals

\* value is a whole number of units of 10^decimals.
IsWholeUnits(value, decimals) ==
  /\ Len(value) > decimals
  /\ \A i \in (Len(value) - decimals + 1)..Len(value) : value[i] = 0

FeeAndRawOfFirstSuccess(q) ==
  /\ q.answers # <<>>
  /\ Last(q.answers).ok
  /\ AllFailed(SubSeq(q.answers, 1, Len(q.answers) - 1))
  /\ q.result.feeTier = Last(q.answers).fee
  /\ CharsToDigits(q.result.amountOutRaw) = Last(q.answers).amountOut
  /\ Called(q, "outDecimals") <=> ~IsWeth(q.tokenOutAddress)

\* amountOut read back at the token's precision is the raw output.
ScaledDown(q) ==
  parseUnits(q.result.amountOut, OutDecimals(q))
    = [ok |-> TRUE, value |-> Last(q.answers).amountOut]

IsPreconditionCall(c) == c.op \in {"balanceOf", "allowance", "approve", "approveWait"}

CalledBefore(q, op, i) == \E j \in 1..(i - 1) : q.calls[j].op = op

\* C17 as stated: no balance read, allowance read or approval is issued
\* before the request has called the quoter and obtained its quote.
C17_QuoteBeforeChecks ==
  \A r \in Reqs :
    req[r].kind = "swap" =>
      \A i \in 1..Len(req[r].calls) :
        IsPreconditionCall(req[r].calls[i]) =>
          /\ CalledBefore(req[r], "quote", i)
          /\ req[r].fee # 0

\* C17 amended: the quoter is called, and the slippage computed, only after
\* the balance was read and covers the amount and the allowance was read and
\* covers the amount or an approval was mined; no precondition call follows a
\* quoter call.
C17_ChecksBeforeQuote ==
  \A r \in Reqs :
    req[r].kind = "swap" =>
      /\ \A i \in 1..Len(req[r].calls) :
           req[r].calls[i].op = "quote" =>
             /\ CalledBefore(req[r], "balanceOf", i)
             /\ CalledBefore(req[r], "allowance", i)
             /\ req[r].balance # <<>> /\ BNGte(req[r].balance, req[r].amountInWei)
             /\ req[r].allowance # <<>>
             /\ BNGte(req[r].allowance, req[r].amountInWei) \/ req[r].approveMined
             /\ req[r].approveMined =>
                  CalledBefore(req[r], "approve", i) /\ CalledBefore(req[r], "approveWait", i)
             /\ \A j \in (i + 1)..Len(req[r].calls) :
                  ~IsPreconditionCall(req[r].calls[j])
      /\ req[r].dynamicSlippage # 0 =>
           /\ req[r].fee # 0
           /\ req[r].answers # <<>> /\ Last(req[r].answers).ok

\* A swap request that read the balance and the allowance, had an approval
\* mined and then obtained its quote.
C17_Witness ==
  \E r \in Reqs :
    /\ req[r].kind = "swap"
    /\ req[r].fee # 0
    /\ req[r].dynamicSlippage # 0
    /\ Len(req[r].calls) >= 5
    /\ [i \in 1..5 |-> req[r].calls[i].op]
         = <<"balanceOf", "allowance", "approve", "approveWait", "quote">>

(***************************************************************************)
(* C18: the parameters of a submitted swap agree with the earlier steps of *)
(* the request: the fee of its quote, the amount that passed the balance   *)
(* and allowance checks, the resolved addresses, the signer as recipient,  *)
(* no native value, and a minimum output not above the quoted output.      *)
(***************************************************************************)
C18_ParamsConsistent ==
  \A r \in Reqs :
    LET q == req[r] IN
    Called(q, "swap") =>
      /\ q.answers # <<>> /\ Last(q.answers).ok
      /\ q.params.fee = Last(q.answers).fee
      /\ q.params.fee = Last(FeesTried(q))
      /\ q.params.amountIn = q.amountInWei
      /\ parseUnits(q.amountIn, DecimalsOf(ChainKey(q.tokenInAddress)))
           = [ok |-> TRUE, value |-> q.params.amountIn]
      /\ BNGte(q.balance, q.params.amountIn)
      /\ BNGte(q.allowance, q.params.amountIn) \/ q.approveMined
      /\ q.params.tokenIn = Resolve(q.tokenIn)
      /\ q.params.tokenOut = Resolve(q.tokenOut)
      /\ q.params.tokenIn = q.tokenInAddress
      /\ q.params.tokenOut = q.tokenOutAddress
      /\ q.params.recipient = SIGNER
      /\ q.params.value = BNZero
      /\ q.params.amountOutMinimum = q.amountOutMinimum
      /\ BNGte(Last(q.answers).amountOut, q.params.amountOutMinimum)

\* A swap submitted with a minimum output below the quoted output, after an
\* approval.
C18_Witness ==
  \E r \in Reqs :
    /\ Called(req[r], "swap")
    /\ req[r].approveMined
    /\ req[r].params.fee = 3000
    /\ req[r].params.amountIn = WholeTokens(1, ChainKey(WETH_ADDRESS))
    /\ BNLt(req[r].params.amountOutMinimum, req[r].amountOut)

(***************************************************************************)
(* C19: every request sends at most one response, a request that was       *)
(* answered takes no further step, and, when every external call returns,  *)
(* every request that arrived is eventually answered exactly once.         *)
(***************************************************************************)
C19_ExactlyOneResponse ==
  /\ [](\A r \in Reqs :
          /\ req[r].responses <= 1
          /\ req[r].responses = 1 <=> req[r].pc = "done")
  /\ [][\A r \in Reqs : req[r].pc = "done" => req'[r] = req[r]]_vars
  /\ \A r \in Reqs :
       (req[r].pc # "idle") ~> (req[r].pc = "done" /\ req[r].responses = 1)

\* A request answered once with the early response of the balance check,
\* beside a request answered once with a transaction hash.
C19_Witness ==
  \E r, n \in Reqs :
    /\ InsufficientBalance(req[r])
    /\ req[r].responses = 1
    /\ req[n].status = 200
    /\ req[n].responses = 1

(***************************************************************************)
(* C20: the balance check is a check-then-act without atomicity: while one *)
(* swap request is between its passed balance check and the mining of its  *)
(* swap, the balance read of another request of the same token returns the *)
(* undebited balance and passes too; each request reads the balance once,  *)
(* so both go on to submit a swap, and the balance a request checked need   *)
(* not cover its amount any more when its swap is submitted.               *)
(***************************************************************************)
PassedBalanceCheck(q) ==
  /\ q.kind = "swap"
  /\ q.pc \in {"allowance", "approve", "approveWait", "quote", "swap", "swapWait"}
  /\ BNGte(q.balance, q.amountInWei)

C20_BalanceCheckNotAtomic ==
  /\ \A r, n \in Reqs :
       (/\ r # n
        /\ PassedBalanceCheck(req[r])
        /\ req[n].pc = "balanceOf"
        /\ ChainKey(req[n].tokenInAddress) = ChainKey(req[r].tokenInAddress)
        /\ BNGte(chain.balance[ChainKey(req[n].tokenInAddress)], req[n].amountInWei))
       => ENABLED (BalanceOfReturns(n) /\ req'[n].pc = "allowance")
  /\ \A r \in Reqs :
       Called(req[r], "swap") =>
         /\ CountCalls(req[r], "balanceOf") = 1
         /\ BNGte(req[r].balance, req[r].amountInWei)

\* Two requests whose amounts each fit the balance they read, and together
\* exceed it, have both submitted a swap; one swap is mined, and the balance
\* no longer covers the amount of the other, which is submitted and not mined.
C20_Witness ==
  \E r, n \in Reqs :
    /\ r # n
    /\ ChainKey(req[r].tokenInAddress) = ChainKey(req[n].tokenInAddress)
    /\ Called(req[r], "swap") /\ Called(req[n], "swap")
    /\ req[r].balance = req[n].balance
    /\ BNGte(req[r].balance, req[r].amountInWei)
    /\ BNGte(req[n].balance, req[n].amountInWei)
    /\ BNLt(req[r].balance, BNAdd(req[r].amountInWei, req[n].amountInWei))
    /\ req[n].swapMined
    /\ req[r].pc \in {"swap", "swapWait"}
    /\ BNLt(chain.balance[ChainKey(req[r].tokenInAddress)], req[r].amountInWei)

====
